---- MODULE Spec2Model ----
(***************************************************************************)
(* visualqc (src/visualqc/vqc.py): validation of the subject list and the  *)
(* review loop of cli_run.                                                 *)
(*                                                                         *)
(* One run of cli_run is modelled: parse_args in two steps (up to the      *)
(* return of check_id_list, then the rest), then generate_visualizations   *)
(* split at its two calls into                                             *)
(* external code (_prepare_images -> read_image, review_and_rate), then    *)
(* clean_up / sys.exit or the normal return of cli_run.                    *)
(*                                                                         *)
(* Floats of the alpha pair are modelled in tenths (0.7 -> 7).             *)
(* A subject id is the sequence of its characters, a path                  *)
(* <fs_dir>/<subject_id>/mri/<file> is the pair <<subject_id, file>>.      *)
(***************************************************************************)
EXTENDS Integers, Sequences, FiniteSets, TLC

\* ------------------------------------------------------------- bounds
\* Longest candidate list (lines of the ID list, or folders of fs_dir).
MaxLen == 3

\* ---------------------------------------------------------- constants
default_out_dir_name == "visualqc"
t1_mri_identifier == "orig.mgz"
fs_seg_identifier == "aparc+aseg.mgz"
required_files == <<t1_mri_identifier, fs_seg_identifier>>
visualization_combination_choices ==
    {"cortical_volumetric", "cortical_surface",
     "cortical_composite", "subcortical_volumetric"}
default_alpha_set == <<7, 7>>

\* ------------------------------------------------------------ helpers
Range(s) == {s[i] : i \in 1..Len(s)}

NoDup(s) == \A i, j \in 1..Len(s) : s[i] = s[j] => i = j

SeqsUpTo(S, n) == UNION {[1..k -> S] : k \in 0..n}

\* ------------------------------------------------- inputs of the model
\* Lines of an ID list file as the iteration over the open file yields
\* them: every line but possibly the last ends with a newline.
ListingLines ==
    { <<"a">>, <<"a", "\n">>, <<" ", "b", " ", "\n">>, <<"c", "\n">> }

\* The characters line.strip('\n ') removes at both ends.
StripChars == {"\n", " "}

RECURSIVE lstrip(_)
lstrip(line) ==
    IF line # <<>> /\ Head(line) \in StripChars
    THEN lstrip(Tail(line)) ELSE line

RECURSIVE rstrip(_)
rstrip(line) ==
    IF line # <<>> /\ line[Len(line)] \in StripChars
    THEN rstrip(SubSeq(line, 1, Len(line) - 1)) ELSE line

\* strip that only removes at the left end.
strip_left_only(line) == lstrip(line)

strip(line) == rstrip(lstrip(line))

\* [ line.strip('\n ') for line in open(id_list_in) ]
read_id_list(lines) == [i \in 1..Len(lines) |-> strip(lines[i])]

SubjectIDs == {strip(l) : l \in ListingLines}

\* A required file on disk: absent, present with size 0, present with data.
FileStatus == {"absent", "empty", "data"}

pexists(st) == st # "absent"

\* os.path.getsize of a file that exists (never called on an absent one:
\* the `or` of line 168 short-circuits).
getsize(st) == IF st = "empty" THEN 0 ELSE 1

\* The ratings the reviewer can give (opaque to vqc.py), the transparency
\* pairs given on the command line (tenths).
Ratings == {"good", "bad"}
AlphaInputs == {default_alpha_set, <<0, 10>>, <<-1, 5>>, <<5, 11>>}

\* ------------------------------------------------ check_id_list (146-185)
\* realpath(pjoin(fs_dir, subject_id, 'mri', req_file)) for the two files.
path_list(subject_id) ==
    [i \in 1..Len(required_files) |-> <<subject_id, required_files[i]>>]

\* Status of the file at a path in file system fsys.
stat(fsys, path) == fsys[path[1]][path[2]]

\* file_invalid without the size test: an empty file passes.
file_invalid_no_size(fsys, this_file) == ~pexists(stat(fsys, this_file))

\* not pexists(this_file) or os.path.getsize(this_file) <= 0
file_invalid(fsys, this_file) ==
    \/ ~pexists(stat(fsys, this_file))
    \/ getsize(stat(fsys, this_file)) <= 0

\* invalid = [ this_file for this_file in path_list if ... ]
invalid_files(fsys, subject_id) ==
    SelectSeq(path_list(subject_id), LAMBDA p : file_invalid(fsys, p))

\* The three lists of lines 162-164.
EmptyLists == [id_list_out |-> <<>>, id_list_err |-> <<>>, invalid_list |-> <<>>]

\* classify_step without the else of line 172: a skipped subject is also
\* appended to id_list_out.
classify_step_no_else(acc, subject_id, fsys) ==
    LET invalid == invalid_files(fsys, subject_id) IN
    IF Len(invalid) > 0
    THEN [acc EXCEPT !.id_list_err = Append(@, subject_id),
                     !.id_list_out = Append(@, subject_id),
                     !.invalid_list = @ \o invalid]
    ELSE [acc EXCEPT !.id_list_out = Append(@, subject_id)]

\* classify_step with insert(0, subject_id) in place of append.
classify_step_insert_front(acc, subject_id, fsys) ==
    LET invalid == invalid_files(fsys, subject_id) IN
    IF Len(invalid) > 0
    THEN [acc EXCEPT !.id_list_err = <<subject_id>> \o @,
                     !.invalid_list = @ \o invalid]
    ELSE [acc EXCEPT !.id_list_out = <<subject_id>> \o @]

\* classify_step recording only the first failing file of a subject.
classify_step_first_only(acc, subject_id, fsys) ==
    LET invalid == invalid_files(fsys, subject_id) IN
    IF Len(invalid) > 0
    THEN [acc EXCEPT !.id_list_err = Append(@, subject_id),
                     !.invalid_list = Append(@, invalid[1])]
    ELSE [acc EXCEPT !.id_list_out = Append(@, subject_id)]

\* One iteration of the loop of lines 166-173.
classify_step(acc, subject_id, fsys) ==
    LET invalid == invalid_files(fsys, subject_id) IN
    IF Len(invalid) > 0
    THEN [acc EXCEPT !.id_list_err = Append(@, subject_id),
                     !.invalid_list = @ \o invalid]
    ELSE [acc EXCEPT !.id_list_out = Append(@, subject_id)]

\* for subject_id in id_list: ... (lines 166-173), from the lists in acc.
RECURSIVE classify(_, _, _)
classify(id_list, fsys, acc) ==
    IF id_list = <<>> THEN acc
    ELSE classify(Tail(id_list), fsys, classify_step(acc, Head(id_list), fsys))

IOError_no_id_list == "IOError: Given ID list does not exist!"
IOError_read_id_list == "IOError: unable to read the ID list."
ValueError_no_subjects ==
    "ValueError: All the subject IDs do not have the required files - unable to proceed."

\* no_usable with the test of line 180 never true (len(...) < 0).
no_usable_never(id_list_out) == FALSE

\* len(id_list_out) < 1  (line 180)
no_usable(id_list_out) == Len(id_list_out) < 1

\* check_id_list(id_list_in, fs_dir).  id_list_in is "None" (option not
\* given), or the state of the file it names: "missing", "unreadable",
\* "readable".  lines are the lines of a readable ID list, folders the
\* sub-directories of fs_dir as os.listdir enumerates them.
\* Result: raised (the exception, or "none"), the local lists, and
\* returned (the returned list; <<>> when the call raised).
check_id_list(id_list_in, lines, folders, fsys) ==
    LET nothing == [id_list |-> <<>>, returned |-> <<>>] @@ EmptyLists IN
    IF id_list_in = "missing"
    THEN [raised |-> IOError_no_id_list] @@ nothing
    ELSE IF id_list_in = "unreadable"
    THEN [raised |-> IOError_read_id_list] @@ nothing
    ELSE LET id_list == IF id_list_in = "None" THEN folders
                        ELSE read_id_list(lines)
             acc == classify(id_list, fsys, EmptyLists)
         IN  IF no_usable(acc.id_list_out)
             THEN [raised |-> ValueError_no_subjects, id_list |-> id_list,
                   returned |-> <<>>] @@ acc
             ELSE [raised |-> "none", id_list |-> id_list,
                   returned |-> acc.id_list_out] @@ acc

\* --------------------------------------------------- parse_args (188-223)
\* A path is the sequence of its segments; None is the empty path.
None == <<>>
FsDirArg == <<"subjects">>
OutDirArgs == {None, <<"out">>}

IOError_no_fs_dir == "IOError: Freesurfer directory specified does not exist!"
IOError_out_dir == "IOError: Unable to create the output directory as requested."
ValueError_alpha == "ValueError: alpha values must be within [0.0, 1.0]"
SystemExit_1 == "SystemExit: 1"

\* visualqc.utils.check_alpha_set is not part of src/: both values must lie
\* in [0.0, 1.0], bounds included (tenths: 0..10).
check_alpha_set(alpha_set) ==
    IF \A i \in 1..Len(alpha_set) : alpha_set[i] >= 0 /\ alpha_set[i] <= 10
    THEN [raised |-> "none", returned |-> alpha_set]
    ELSE [raised |-> ValueError_alpha, returned |-> <<>>]

\* What parse_args hands to cli_run when it raises or exits.
NoContext == [fs_dir |-> None, id_list |-> <<>>, out_dir |-> None,
              vis_type |-> "unset", alpha_set |-> <<>>]

\* finish_parse_args with the failure of os.makedirs swallowed.
finish_parse_args_ignore_makedirs(e, returned) ==
    LET out_dir == IF e.out_dir = None
                   THEN e.fs_dir \o <<default_out_dir_name>>
                   ELSE e.out_dir
        alpha == check_alpha_set(e.alpha_set)
    IN  IF alpha.raised # "none"
        THEN [raised |-> alpha.raised] @@ NoContext
        ELSE [raised |-> "none", fs_dir |-> e.fs_dir, id_list |-> returned,
              out_dir |-> out_dir, vis_type |-> e.vis_type,
              alpha_set |-> alpha.returned]

\* Lines 208-223: the rest of parse_args once check_id_list has returned
\* the list `returned`.
finish_parse_args(e, returned) ==
    LET out_dir == IF e.out_dir = None
                   THEN e.fs_dir \o <<default_out_dir_name>>
                   ELSE e.out_dir
        alpha == check_alpha_set(e.alpha_set)
    IN  IF e.makedirs_ok # "yes"
        THEN [raised |-> IOError_out_dir] @@ NoContext
        ELSE IF alpha.raised # "none"
        THEN [raised |-> alpha.raised] @@ NoContext
        ELSE [raised |-> "none", fs_dir |-> e.fs_dir, id_list |-> returned,
              out_dir |-> out_dir, vis_type |-> e.vis_type,
              alpha_set |-> alpha.returned]

\* Lines 191-208: whether parse_args reaches the call of check_id_list, and
\* what it raises when it does not.
before_check_id_list(e) ==
    IF e.argv # "ok" THEN SystemExit_1
    ELSE IF e.fs_dir_exists # "yes" THEN IOError_no_fs_dir
    ELSE "none"

\* The command line and the environment facts parse_args consults, each
\* recorded when parse_args reads it ("unread", None, <<>> before that).
\*   argv: "too_few" (len(sys.argv) < 2), "unparsable" (argparse rejects
\*   it, e.g. a vis_type outside the choices), "ok".
\*   id_list_in: "None" (option not given) or the state of the file named.
Unread ==
    [argv |-> "unread", fs_dir |-> None, fs_dir_exists |-> "unread",
     id_list_in |-> "unread", makedirs_ok |-> "unread", out_dir |-> None,
     vis_type |-> "unread", alpha_set |-> <<>>]

\* ------------------------------------------------------------- state
VARIABLES
    pc,             \* where cli_run is
    env,            \* command line and environment as read so far
    fs,             \* the required files as check_id_list finds them
    lines,          \* the lines of the ID list as line 155 reads them
    candidates,     \* id_list of check_id_list (line 155 / 160)
    id_list_out, id_list_err, invalid_list,     \* lines 162-164
    fs_dir, id_list, out_dir, vis_type, alpha_set,  \* result of parse_args
    ratings,        \* the dict of line 34: <<[id, rating], ...>>, keys in
                    \* insertion order
    idx,            \* position in id_list of the loop of line 35
    prep,           \* what _prepare_images returned for the current subject
    prepared,       \* positions for which _prepare_images was called
    reviewed,       \* positions for which review_and_rate returned
    review_args,    \* the arguments of the last call of review_and_rate
    review_result,  \* what the last call of review_and_rate returned
    clean_up_calls, \* arguments of the calls of clean_up
    err,            \* the exception that ended the run, or "none"
    exit_status,    \* exit status of the process, -1 while it runs
    reported        \* line 235 printed the output directory

vars == <<pc, env, fs, lines, candidates, id_list_out, id_list_err, invalid_list,
          fs_dir, id_list, out_dir, vis_type, alpha_set, ratings, idx, prep,
          prepared, reviewed, review_args, review_result, clean_up_calls, err,
          exit_status, reported>>

RequiredSet == Range(required_files)
AbsentFiles == [f \in RequiredSet |-> "absent"]
NoFiles == [s \in SubjectIDs |-> AbsentFiles]
NoReviewArgs == [t1_mri |-> <<>>, overlay_seg |-> <<>>, output_path |-> <<>>,
                 alpha_mri |-> "none", alpha_seg |-> "none", annot |-> <<>>]
NoReview == [rating |-> "none", quit_now |-> FALSE]
NoPrep == [returned |-> FALSE, t1_mri |-> <<>>, overlay_seg |-> <<>>,
           out_path |-> <<>>]

\* The state before cli_run starts, the ID list apart.
InitRun ==
    /\ pc = "start"
    /\ env = Unread
    /\ fs = NoFiles
    /\ candidates = <<>>
    /\ id_list_out = <<>> /\ id_list_err = <<>> /\ invalid_list = <<>>
    /\ fs_dir = None /\ id_list = <<>> /\ out_dir = None
    /\ vis_type = "unset" /\ alpha_set = <<>>
    /\ ratings = <<>>
    /\ idx = 1
    /\ prep = NoPrep
    /\ prepared = <<>> /\ reviewed = <<>>
    /\ review_args = NoReviewArgs
    /\ review_result = NoReview
    /\ clean_up_calls = <<>>
    /\ err = "none"
    /\ exit_status = -1
    /\ reported = FALSE

Init == lines = <<>> /\ InitRun

\* The file systems in which only the subjects of ids have files: the
\* files of other subjects are never looked at.
FileSystems(ids) ==
    {[s \in SubjectIDs |-> IF s \in ids THEN g[s] ELSE AbsentFiles] :
        g \in [ids -> [RequiredSet -> FileStatus]]}

\* The run ends with an uncaught exception, or with parser.exit(1).
Raise(e) ==
    /\ pc' = "Error"
    /\ err' = e
    /\ exit_status' = 1

\* parse_args up to the return of check_id_list (lines 191-208).
CheckIdList ==
    /\ pc = "start"
    /\ \E argv \in {"too_few", "unparsable", "ok"} :
        IF argv # "ok"
        THEN /\ env' = [env EXCEPT !.argv = argv]
             /\ Raise(before_check_id_list(env'))
             /\ UNCHANGED <<fs, lines, candidates, id_list_out, id_list_err,
                            invalid_list>>
        ELSE \E fs_dir_exists \in {"yes", "no"} :
        IF fs_dir_exists # "yes"
        THEN /\ env' = [env EXCEPT !.argv = argv, !.fs_dir = FsDirArg,
                                   !.fs_dir_exists = fs_dir_exists]
             /\ Raise(before_check_id_list(env'))
             /\ UNCHANGED <<fs, lines, candidates, id_list_out, id_list_err,
                            invalid_list>>
        ELSE \E id_list_in \in {"None", "missing", "unreadable", "readable"},
                read \in SeqsUpTo(ListingLines, MaxLen),
                folders \in {f \in SeqsUpTo(SubjectIDs, MaxLen) : NoDup(f)} :
            /\ id_list_in # "readable" => read = <<>>
            /\ id_list_in # "None" => folders = <<>>
            /\ env' = [env EXCEPT !.argv = argv, !.fs_dir = FsDirArg,
                                  !.fs_dir_exists = fs_dir_exists,
                                  !.id_list_in = id_list_in]
            /\ \E fsys \in FileSystems(Range(folders) \cup Range(read_id_list(read))) :
               LET chk == check_id_list(id_list_in, read, folders, fsys)
               IN  /\ fs' = fsys
                   /\ lines' = read
                   /\ candidates' = chk.id_list
                   /\ id_list_out' = chk.id_list_out
                   /\ id_list_err' = chk.id_list_err
                   /\ invalid_list' = chk.invalid_list
                   /\ IF chk.raised # "none" THEN Raise(chk.raised)
                      ELSE pc' = "checked" /\ UNCHANGED <<err, exit_status>>
    /\ UNCHANGED <<fs_dir, id_list, out_dir, vis_type, alpha_set, ratings, idx,
                   prep, prepared, reviewed, review_args, review_result,
                   clean_up_calls, reported>>

\* The rest of parse_args (lines 208-223), then cli_run enters
\* generate_visualizations (229-234).  The lists local to check_id_list are
\* gone once it has returned, and so is its view fs of the files
\* (_prepare_images reads the files anew); its return value is id_list.
FinishParseArgs ==
    /\ pc = "checked"
    /\ \E makedirs_ok \in {"yes", "no"}, out_dir_arg \in OutDirArgs,
          vis_type_arg \in visualization_combination_choices,
          alpha_arg \in AlphaInputs :
        /\ env' = [env EXCEPT !.makedirs_ok = makedirs_ok, !.out_dir = out_dir_arg,
                              !.vis_type = vis_type_arg, !.alpha_set = alpha_arg]
        /\ LET res == finish_parse_args(env', id_list_out)
           IN  IF res.raised # "none"
               THEN /\ Raise(res.raised)
                    /\ UNCHANGED <<fs_dir, id_list, out_dir, vis_type, alpha_set>>
               ELSE /\ pc' = "loop"
                    /\ fs_dir' = res.fs_dir
                    /\ id_list' = res.id_list
                    /\ out_dir' = res.out_dir
                    /\ vis_type' = res.vis_type
                    /\ alpha_set' = res.alpha_set
                    /\ UNCHANGED <<err, exit_status>>
    /\ fs' = NoFiles
    /\ lines' = <<>>
    /\ candidates' = <<>>
    /\ id_list_out' = <<>> /\ id_list_err' = <<>> /\ invalid_list' = <<>>
    /\ UNCHANGED <<ratings, idx, prep, prepared, reviewed, review_args,
                   review_result, clean_up_calls, reported>>

\* ---------------------------------------------- _prepare_images (49-66)
IOError_t1_mri == "IOError: T1 mri"
IOError_fs_seg == "IOError: aparc+aseg segmentation"
NotImplementedError ==
    "NotImplementedError: Other visualization combinations have not been implemented yet! Stay tuned."

\* visualqc.utils.read_image is not part of src/: it returns the volume of
\* the file or, when the file cannot be loaded (loads = FALSE), raises an
\* error that carries error_msg.
read_image(path, loads, error) ==
    IF loads THEN [raised |-> "none", img |-> <<"volume", path>>]
    ELSE [raised |-> error, img |-> <<>>]

\* visualqc.utils.void_subcortical_symmetrize_cortical: one labelled volume
\* in, one out.
void_subcortical_symmetrize_cortical(fs_seg) == <<"ctx_symmetric", fs_seg>>

\* prepare_images without the test of vis_type (lines 59-62).
prepare_images_any_kind(dir, subject_id, out, kind, t1_loads, seg_loads) ==
    LET t1_mri == read_image(<<dir, subject_id, "mri", t1_mri_identifier>>,
                             t1_loads, IOError_t1_mri)
        fs_seg == read_image(<<dir, subject_id, "mri", fs_seg_identifier>>,
                             seg_loads, IOError_fs_seg)
    IN  IF t1_mri.raised # "none" THEN [raised |-> t1_mri.raised] @@ NoPrep
        ELSE IF fs_seg.raised # "none" THEN [raised |-> fs_seg.raised] @@ NoPrep
        ELSE [raised |-> "none", returned |-> TRUE, t1_mri |-> t1_mri.img,
              overlay_seg |-> void_subcortical_symmetrize_cortical(fs_seg.img),
              out_path |-> out \o << <<"visual_qc", kind, subject_id>> >>]

\* _prepare_images(fs_dir, subject_id, out_dir, vis_type); t1_loads and
\* seg_loads say whether read_image can load the two files.
prepare_images(dir, subject_id, out, kind, t1_loads, seg_loads) ==
    LET t1_mri == read_image(<<dir, subject_id, "mri", t1_mri_identifier>>,
                             t1_loads, IOError_t1_mri)
        fs_seg == read_image(<<dir, subject_id, "mri", fs_seg_identifier>>,
                             seg_loads, IOError_fs_seg)
    IN  IF t1_mri.raised # "none" THEN [raised |-> t1_mri.raised] @@ NoPrep
        ELSE IF fs_seg.raised # "none" THEN [raised |-> fs_seg.raised] @@ NoPrep
        ELSE IF kind \notin {"cortical_volumetric"}
        THEN [raised |-> NotImplementedError] @@ NoPrep
        ELSE [raised |-> "none", returned |-> TRUE, t1_mri |-> t1_mri.img,
              overlay_seg |-> void_subcortical_symmetrize_cortical(fs_seg.img),
              out_path |-> out \o << <<"visual_qc", kind, subject_id>> >>]

\* ------------------------------------- generate_visualizations (31-46)
HasKey(d, key) == \E i \in 1..Len(d) : d[i].id = key

Keys(d) == [i \in 1..Len(d) |-> d[i].id]

Lookup(d, key) == d[CHOOSE i \in 1..Len(d) : d[i].id = key].rating

\* dict_set that adds an entry at every call (a list of pairs, not a dict).
dict_set_append_always(d, key, rating) ==
    Append(d, [id |-> key, rating |-> rating])

\* dict_set that deletes a known key and inserts it again, at the end.
dict_set_move_last(d, key, rating) ==
    Append(SelectSeq(d, LAMBDA e : e.id # key), [id |-> key, rating |-> rating])

\* d[key] = rating of a Python dict: a new key goes last, a known key keeps
\* its place and takes the new value.
dict_set(d, key, rating) ==
    IF HasKey(d, key)
    THEN [i \in 1..Len(d) |-> IF d[i].id = key
                              THEN [id |-> key, rating |-> rating] ELSE d[i]]
    ELSE Append(d, [id |-> key, rating |-> rating])

\* record_rating with quit_now tested before the rating is stored.
record_rating_unless_quit(d, subject_id, rating, quit_now) ==
    IF quit_now THEN d ELSE dict_set(d, subject_id, rating)

\* Line 38: ratings[subject_id], quit_now = review_and_rate(...)
record_rating(d, subject_id, rating, quit_now) ==
    dict_set(d, subject_id, rating)

\* review_arguments with alpha_set[0] passed for both layers.
review_arguments_one_alpha(p, alphas, subject_id) ==
    [t1_mri |-> p.t1_mri, overlay_seg |-> p.overlay_seg,
     output_path |-> p.out_path,
     alpha_mri |-> alphas[1], alpha_seg |-> alphas[1],
     annot |-> <<"ID", subject_id>>]

\* Lines 38-40: the arguments of review_and_rate, from the tuple p that
\* _prepare_images returned (alpha_set[0] is alphas[1] here).
review_arguments(p, alphas, subject_id) ==
    [t1_mri |-> p.t1_mri, overlay_seg |-> p.overlay_seg,
     output_path |-> p.out_path,
     alpha_mri |-> alphas[1], alpha_seg |-> alphas[2],
     annot |-> <<"ID", subject_id>>]

\* after_review without the exit: the loop goes on after quit_now.
after_review_ignore_quit(quit_now) == "loop"

\* after_review without the call of clean_up (line 43).
after_review_no_clean_up(quit_now) == IF quit_now THEN "sys_exit" ELSE "loop"

\* Lines 42-44: where the loop goes once the rating is recorded.
after_review(quit_now) == IF quit_now THEN "clean_up" ELSE "loop"

\* PrepareImages with the ratings handed to clean_up when _prepare_images
\* raises.
PrepareImages_clean_up_on_error ==
    /\ pc = "loop"
    /\ idx <= Len(id_list)
    /\ prepared' = Append(prepared, idx)
    /\ \E t1_loads \in BOOLEAN, seg_loads \in BOOLEAN :
        LET r == prepare_images(fs_dir, id_list[idx], out_dir, vis_type,
                                t1_loads, seg_loads)
        IN  /\ prep' = [returned |-> r.returned, t1_mri |-> r.t1_mri,
                        overlay_seg |-> r.overlay_seg, out_path |-> r.out_path]
            /\ IF r.raised # "none"
               THEN /\ Raise(r.raised)
                    /\ clean_up_calls' =
                          Append(clean_up_calls,
                                 [ratings |-> ratings, out_dir |-> out_dir])
                    /\ UNCHANGED review_args
               ELSE /\ pc' = "review"
                    /\ review_args' = review_arguments(prep', alpha_set, id_list[idx])
                    /\ UNCHANGED <<err, exit_status, clean_up_calls>>
    /\ UNCHANGED <<env, fs, lines, candidates, id_list_out, id_list_err,
                   invalid_list,
                   fs_dir, id_list, out_dir, vis_type, alpha_set, ratings, idx,
                   reviewed, review_result, reported>>

\* Lines 37-40: _prepare_images for the subject at position idx and, when
\* it returns, the call of review_and_rate, which blocks until the reviewer
\* answers.
PrepareImages ==
    /\ pc = "loop"
    /\ idx <= Len(id_list)
    /\ prepared' = Append(prepared, idx)
    /\ \E t1_loads \in BOOLEAN, seg_loads \in BOOLEAN :
        LET r == prepare_images(fs_dir, id_list[idx], out_dir, vis_type,
                                t1_loads, seg_loads)
        IN  /\ prep' = [returned |-> r.returned, t1_mri |-> r.t1_mri,
                        overlay_seg |-> r.overlay_seg, out_path |-> r.out_path]
            /\ IF r.raised # "none"
               THEN Raise(r.raised) /\ UNCHANGED review_args
               ELSE /\ pc' = "review"
                    /\ review_args' = review_arguments(prep', alpha_set, id_list[idx])
                    /\ UNCHANGED <<err, exit_status>>
    /\ UNCHANGED <<env, fs, lines, candidates, id_list_out, id_list_err,
                   invalid_list,
                   fs_dir, id_list, out_dir, vis_type, alpha_set, ratings, idx,
                   reviewed, review_result, clean_up_calls, reported>>

\* Lines 38-42: review_and_rate returns (rating, quit_now), the rating is
\* stored and quit_now decides between the next subject and the exit.
ReviewAndRate ==
    /\ pc = "review"
    /\ reviewed' = Append(reviewed, idx)
    /\ \E rating \in Ratings, quit_now \in BOOLEAN :
        /\ review_result' = [rating |-> rating, quit_now |-> quit_now]
        /\ ratings' = record_rating(ratings, id_list[idx], rating, quit_now)
        /\ pc' = after_review(quit_now)
        /\ idx' = IF quit_now THEN idx ELSE idx + 1
    /\ UNCHANGED <<env, fs, lines, candidates, id_list_out, id_list_err,
                   invalid_list,
                   fs_dir, id_list, out_dir, vis_type, alpha_set, prep,
                   prepared, review_args, clean_up_calls, err, exit_status,
                   reported>>

\* CleanUp for a clean_up that never returns.
CleanUp_never_returns ==
    /\ pc = "clean_up"
    /\ UNCHANGED vars

\* Line 43 and clean_up (69-73): called with the ratings and out_dir; its
\* body is empty.
CleanUp ==
    /\ pc = "clean_up"
    /\ clean_up_calls' = Append(clean_up_calls,
                                [ratings |-> ratings, out_dir |-> out_dir])
    /\ pc' = "sys_exit"
    /\ UNCHANGED <<env, fs, lines, candidates, id_list_out, id_list_err,
                   invalid_list,
                   fs_dir, id_list, out_dir, vis_type, alpha_set, ratings, idx,
                   prep, prepared, reviewed, review_args, review_result, err,
                   exit_status, reported>>

\* Line 44: sys.exit() without argument, exit status 0; cli_run does not
\* catch SystemExit.
SysExit ==
    /\ pc = "sys_exit"
    /\ pc' = "Stopped"
    /\ exit_status' = 0
    /\ UNCHANGED <<env, fs, lines, candidates, id_list_out, id_list_err,
                   invalid_list,
                   fs_dir, id_list, out_dir, vis_type, alpha_set, ratings, idx,
                   prep, prepared, reviewed, review_args, review_result,
                   clean_up_calls, err, reported>>

\* Return without the print of line 235.
Return_without_print ==
    /\ pc = "loop"
    /\ idx > Len(id_list)
    /\ pc' = "Completed"
    /\ exit_status' = 0
    /\ UNCHANGED <<env, fs, lines, candidates, id_list_out, id_list_err,
                   invalid_list,
                   fs_dir, id_list, out_dir, vis_type, alpha_set, ratings, idx,
                   prep, prepared, reviewed, review_args, review_result,
                   clean_up_calls, err, reported>>

\* Lines 46 and 235-239: the loop is exhausted, generate_visualizations
\* returns, cli_run prints the output directory and returns.
Return ==
    /\ pc = "loop"
    /\ idx > Len(id_list)
    /\ reported' = TRUE
    /\ pc' = "Completed"
    /\ exit_status' = 0
    /\ UNCHANGED <<env, fs, lines, candidates, id_list_out, id_list_err,
                   invalid_list,
                   fs_dir, id_list, out_dir, vis_type, alpha_set, ratings, idx,
                   prep, prepared, reviewed, review_args, review_result,
                   clean_up_calls, err>>

Next ==
    \/ CheckIdList \/ FinishParseArgs
    \/ PrepareImages \/ ReviewAndRate \/ CleanUp \/ SysExit \/ Return

Spec == Init /\ [][Next]_vars

\* The steps of generate_visualizations and the return of cli_run.
LoopNext == PrepareImages \/ ReviewAndRate \/ CleanUp \/ SysExit \/ Return

\* The run once the subject list is validated, under a scheduler that lets
\* the process run: a step of the loop that can be taken is taken.  The
\* code of vqc.py between two calls is loop-free; for ReviewAndRate this is
\* the assumption that review_and_rate returns, for PrepareImages that
\* read_image returns or raises, for CleanUp that clean_up returns.
FairSpec == Spec /\ WF_vars(LoopNext)

\* ------------------------------------------ reading the ID list alone
\* Line 155 on its own, over lines with other characters around the ids:
\* tabs, blank lines, inner spaces.
ListedLines ==
    ListingLines \cup
    { <<"c">>, <<"\t", "b", "\n">>, <<"b", "\t", "\n">>, <<"\n">>,
      <<" ", "\n">>, <<"a", " ", "b", "\n">> }

\* The files of at most MaxLen lines: only the last line of a file can
\* lack its newline.
ListedFiles ==
    {f \in SeqsUpTo(ListedLines, MaxLen) :
        \A i \in 1..(Len(f) - 1) : f[i][Len(f[i])] = "\n"}

InitListing == lines \in ListedFiles /\ InitRun

\* id_list = [ line.strip('\n ') for line in open(id_list_in) ]
ReadIdList ==
    /\ pc = "start"
    /\ candidates' = read_id_list(lines)
    /\ pc' = "listed"
    /\ UNCHANGED <<env, fs, lines, id_list_out, id_list_err, invalid_list,
                   fs_dir, id_list, out_dir, vis_type, alpha_set, ratings, idx,
                   prep, prepared, reviewed, review_args, review_result,
                   clean_up_calls, err, exit_status, reported>>

SpecListing == InitListing /\ [][ReadIdList]_vars

TypeOK ==
    /\ pc \in {"start", "checked", "loop", "review", "clean_up", "sys_exit",
               "Completed", "Stopped", "Error"}
    /\ candidates \in SeqsUpTo(SubjectIDs, MaxLen)
    /\ id_list \in SeqsUpTo(SubjectIDs, MaxLen)
    /\ idx \in 1..(MaxLen + 1)
    /\ exit_status \in {-1, 0, 1}
    /\ reported \in BOOLEAN

\* ================================================================ claims
Upto(k) == [i \in 1..k |-> i]

\* review_and_rate has returned quit_now = True and the loop is left.
StopSignalled == pc \in {"clean_up", "sys_exit", "Stopped"}

\* C1: early stop.  When the subjects of id_list are distinct and the k-th
\* review is the first to return quit_now = True, the ratings hold exactly
\* the first k subjects (the k-th included), and exactly positions 1..k
\* were prepared and reviewed: no later position ever is.
C1_EarlyStop ==
    (StopSignalled /\ NoDup(id_list)) =>
        /\ idx \in 1..Len(id_list)
        /\ review_result.quit_now
        /\ Keys(ratings) = SubSeq(id_list, 1, idx)
        /\ prepared = Upto(idx)
        /\ reviewed = Upto(idx)

\* Three distinct usable subjects, stop on the second: two ratings.
C1_Witness ==
    /\ pc = "Stopped"
    /\ Len(id_list) = 3 /\ NoDup(id_list)
    /\ idx = 2
    /\ Keys(ratings) = SubSeq(id_list, 1, 2)
    /\ prepared = <<1, 2>>

\* C2: a review that returns quit_now = True leads to exactly one call of
\* clean_up, made before the process exits, with the ratings collected so
\* far, in which the subject that triggered the stop has the rating just
\* returned; the exit is sys.exit() with status 0 and no exception.  Also
\* when the stop comes on the last subject.
C2_StopPersistsOnce ==
    /\ Len(clean_up_calls) <= 1
    /\ pc = "clean_up" => clean_up_calls = <<>>
    /\ pc \in {"sys_exit", "Stopped"} =>
        /\ Len(clean_up_calls) = 1
        /\ clean_up_calls[1].ratings = ratings
        /\ HasKey(clean_up_calls[1].ratings, id_list[idx])
        /\ Lookup(clean_up_calls[1].ratings, id_list[idx]) = review_result.rating
    /\ pc = "Stopped" => err = "none" /\ exit_status = 0
    /\ clean_up_calls # <<>> => review_result.quit_now

\* The stop is signalled on the last of two or more subjects.
C2_Witness ==
    /\ pc = "Stopped"
    /\ Len(id_list) >= 2 /\ idx = Len(id_list)
    /\ Len(clean_up_calls) = 1
    /\ Len(clean_up_calls[1].ratings) >= 2
    /\ exit_status = 0

\* C3: in every terminal state of a run, Completed as well as Stopped, the
\* ratings have been handed to clean_up.
C3_PersistedAtEveryEnd ==
    pc \in {"Completed", "Stopped"} =>
        /\ clean_up_calls # <<>>
        /\ clean_up_calls[Len(clean_up_calls)].ratings = ratings

\* ------------------------------------------------ claims on validation
\* check_id_list has classified the candidates and its lists are in scope
\* (it returned to parse_args, or raised for want of a usable subject).
Classified ==
    /\ env.id_list_in \in {"None", "readable"}
    /\ env.makedirs_ok = "unread"

\* Both required files of the subject exist with a size that is not zero.
BothFilesUsable(subject_id) ==
    \A f \in RequiredSet : fs[subject_id][f] = "data"

Count(seq, x) == Cardinality({i \in 1..Len(seq) : seq[i] = x})

\* C4: validation partitions the candidates.  Every occurrence of a
\* candidate goes to exactly one of id_list_out and id_list_err: the two
\* lists together hold each subject as often as the candidates do, and no
\* subject is in both.
C4_Partition ==
    Classified =>
        /\ \A s \in SubjectIDs :
              Count(id_list_out, s) + Count(id_list_err, s) = Count(candidates, s)
        /\ Range(id_list_out) \cup Range(id_list_err) = Range(candidates)
        /\ Range(id_list_out) \cap Range(id_list_err) = {}

\* Three candidates, one of them twice, on both sides of the partition.
C4_Witness ==
    /\ Classified
    /\ Len(candidates) = 3 /\ ~NoDup(candidates)
    /\ id_list_out # <<>> /\ id_list_err # <<>>

\* C5: a candidate is usable iff both of its required files exist with a
\* size that is not zero; any other candidate is skipped, wherever it
\* stands in the list and whatever the state of the other candidates.
C5_UsableIffBothFiles ==
    Classified =>
        \A i \in 1..Len(candidates) :
            /\ candidates[i] \in Range(id_list_out) <=> BothFilesUsable(candidates[i])
            /\ candidates[i] \in Range(id_list_err) <=> ~BothFilesUsable(candidates[i])

\* A subject skipped only because one of its files is empty, standing
\* between two usable subjects.
C5_Witness ==
    /\ Classified
    /\ Len(candidates) = 3
    /\ fs[candidates[2]][t1_mri_identifier] = "data"
    /\ fs[candidates[2]][fs_seg_identifier] = "empty"
    /\ id_list_err = <<candidates[2]>>
    /\ id_list_out = <<candidates[1], candidates[3]>>

\* check_id_list was called and raised.
ValidationFailed ==
    /\ pc = "Error"
    /\ err \in {IOError_no_id_list, IOError_read_id_list, ValueError_no_subjects}

\* C6: validation fails iff no candidate is usable (an empty candidate list
\* included).  When it fails nothing is returned to parse_args and no
\* subject is prepared or reviewed in that run.
C6_FailsIffNoneUsable ==
    /\ Classified =>
          /\ err = ValueError_no_subjects <=>
                \A i \in 1..Len(candidates) : ~BothFilesUsable(candidates[i])
          /\ err = "none" <=> pc = "checked"
          /\ pc = "checked" => id_list_out # <<>>
    /\ ValidationFailed =>
          /\ id_list_out = <<>>
          /\ id_list = <<>>
          /\ exit_status = 1
          /\ prepared = <<>> /\ reviewed = <<>> /\ ratings = <<>>

\* Two or more candidates, every one of them skipped.
C6_Witness ==
    /\ Classified
    /\ err = ValueError_no_subjects
    /\ Len(candidates) >= 2
    /\ id_list_err = candidates
    /\ prepared = <<>>

\* One of the configuration checks of parse_args has failed.
ConfigCheckFailed ==
    \/ env.fs_dir_exists = "no"
    \/ env.id_list_in \in {"missing", "unreadable"}
    \/ Classified /\ \A i \in 1..Len(candidates) : ~BothFilesUsable(candidates[i])
    \/ env.makedirs_ok = "no"
    \/ \E i \in 1..Len(env.alpha_set) : env.alpha_set[i] < 0 \/ env.alpha_set[i] > 10

\* C7: every configuration check (fs_dir exists, the ID list exists and is
\* readable, one usable subject at least, out_dir can be created, the alpha
\* pair is valid) is made before the review loop: a run in which one fails
\* ends in an error with no subject prepared or reviewed, and a run that
\* reaches the loop has passed them all.
C7_ChecksBeforeLoop ==
    /\ ConfigCheckFailed =>
          /\ pc = "Error" /\ err # "none" /\ exit_status = 1
          /\ prepared = <<>> /\ reviewed = <<>>
    /\ pc \notin {"start", "checked", "Error"} \/ prepared # <<>> =>
          /\ env.fs_dir_exists = "yes"
          /\ env.id_list_in \in {"None", "readable"}
          /\ env.makedirs_ok = "yes"
          /\ env.alpha_set # <<>>
          /\ id_list # <<>>

\* The output directory cannot be created although subjects are usable.
C7_Witness ==
    /\ env.makedirs_ok = "no"
    /\ env.fs_dir_exists = "yes"
    /\ pc = "Error" /\ err = IOError_out_dir
    /\ prepared = <<>>

\* C8: _prepare_images called with a vis_type other than
\* cortical_volumetric always ends in NotImplementedError and returns
\* nothing, whether or not the two image files load.
C8_OtherKindsNotImplemented ==
    (vis_type \in visualization_combination_choices \ {"cortical_volumetric"}
        /\ prepared # <<>>) =>
        /\ pc = "Error"
        /\ err = NotImplementedError
        /\ ~prep.returned

\* a is b with some elements left out.
RECURSIVE IsSubsequence(_, _)
IsSubsequence(a, b) ==
    IF a = <<>> THEN TRUE
    ELSE IF b = <<>> THEN FALSE
    ELSE IF Head(a) = Head(b) THEN IsSubsequence(Tail(a), Tail(b))
    ELSE IsSubsequence(a, Tail(b))

\* C9: validation keeps the order of the candidates: id_list_out is the
\* candidate list with the skipped subjects left out, id_list_err the
\* candidate list with the usable ones left out.
C9_OrderPreserved ==
    Classified =>
        /\ IsSubsequence(id_list_out, candidates)
        /\ IsSubsequence(id_list_err, candidates)
        /\ id_list_out = SelectSeq(candidates, BothFilesUsable)
        /\ id_list_err = SelectSeq(candidates, LAMBDA s : ~BothFilesUsable(s))

\* Two usable candidates around a skipped one.
C9_Witness ==
    /\ Classified
    /\ Len(candidates) = 3 /\ NoDup(candidates)
    /\ id_list_out = <<candidates[1], candidates[3]>>
    /\ id_list_err = <<candidates[2]>>

\* C10: invalid_list holds every failing required file of every skipped
\* subject, both paths when both files fail, and no file of a usable
\* subject (nor a file that is present with data).
C10_EveryFailingPath ==
    Classified =>
        \A s \in SubjectIDs, f \in RequiredSet :
            <<s, f>> \in Range(invalid_list) <=>
                (s \in Range(candidates) /\ fs[s][f] # "data")

\* A skipped subject with both files failing beside a usable subject.
C10_Witness ==
    /\ Classified
    /\ \E s \in Range(id_list_err) :
          /\ fs[s][t1_mri_identifier] = "absent"
          /\ fs[s][fs_seg_identifier] = "empty"
          /\ <<s, t1_mri_identifier>> \in Range(invalid_list)
          /\ <<s, fs_seg_identifier>> \in Range(invalid_list)
    /\ id_list_out # <<>>
    /\ Len(invalid_list) = 2

\* ----------------------------------------------- claims on the ID list
\* c is line without the characters of drop at its two ends.
IsTrimOf(c, line, drop) ==
    \E i \in 1..(Len(line) + 1), j \in 0..Len(line) :
        /\ c = SubSeq(line, i, j)
        /\ \A k \in 1..(i - 1) : line[k] \in drop
        /\ \A k \in (j + 1)..Len(line) : line[k] \in drop
        /\ c # <<>> => c[1] \notin drop /\ c[Len(c)] \notin drop

Whitespace == {" ", "\n", "\t"}

\* C11 as claimed: each line gives one subject id, the line without any of
\* its surrounding whitespace, in line order.
C11_AllWhitespaceStripped ==
    pc = "listed" =>
        /\ Len(candidates) = Len(lines)
        /\ \A i \in 1..Len(lines) : IsTrimOf(candidates[i], lines[i], Whitespace)

\* C11 as amended: each line gives one subject id, the line without its
\* surrounding spaces and newlines (a tab, or whitespace inside the line,
\* stays), in line order.
C11_SpacesAndNewlinesStripped ==
    pc = "listed" =>
        /\ Len(candidates) = Len(lines)
        /\ \A i \in 1..Len(lines) : IsTrimOf(candidates[i], lines[i], {" ", "\n"})

\* The lines "a\n", " b \n", "c" give a, b, c.
C11_Witness ==
    /\ pc = "listed"
    /\ lines = << <<"a", "\n">>, <<" ", "b", " ", "\n">>, <<"c">> >>
    /\ candidates = << <<"a">>, <<"b">>, <<"c">> >>

\* ------------------------------------------- claims on the review loop
\* C12: the loop is sequential and in list order.  Positions are prepared
\* and reviewed in the order 1, 2, ..., at most one position is prepared
\* and not yet reviewed, a position is reviewed only after it was prepared,
\* position i+1 is prepared only after the review of position i returned
\* quit_now = False, and the list walked is the list check_id_list
\* returned.
C12_Sequential ==
    /\ [](/\ prepared = Upto(Len(prepared))
          /\ reviewed = Upto(Len(reviewed))
          /\ Len(prepared) <= Len(id_list)
          /\ Len(reviewed) <= Len(prepared)
          /\ Len(prepared) <= Len(reviewed) + 1
          /\ pc = "review" =>
                /\ idx = Len(prepared) /\ Len(reviewed) = idx - 1
                /\ prep.returned
                /\ prep.out_path = out_dir \o << <<"visual_qc", vis_type, id_list[idx]>> >>
                /\ review_args.annot = <<"ID", id_list[idx]>>)
    /\ [][prepared' # prepared =>
            /\ pc = "loop"
            /\ Len(prepared) = Len(reviewed)
            /\ prepared' = Append(prepared, Len(reviewed) + 1)
            /\ reviewed # <<>> => ~review_result.quit_now]_vars
    /\ [][reviewed' # reviewed =>
            /\ pc = "review"
            /\ reviewed' = Append(reviewed, Len(prepared))]_vars
    /\ [][pc = "checked" /\ pc' = "loop" => id_list' = id_list_out]_vars

\* The third subject is under review, the first two have been reviewed.
C12_Witness ==
    /\ pc = "review"
    /\ idx = 3
    /\ prepared = <<1, 2, 3>>
    /\ reviewed = <<1, 2>>
    /\ ~review_result.quit_now

\* The elements of seq without repetition, in the order of their first
\* occurrence.
RECURSIVE FirstOccurrences(_)
FirstOccurrences(seq) ==
    IF seq = <<>> THEN <<>>
    ELSE LET rest == FirstOccurrences(SubSeq(seq, 1, Len(seq) - 1))
             last == seq[Len(seq)]
         IN  IF last \in Range(rest) THEN rest ELSE Append(rest, last)

\* The subjects reviewed so far, in the order of their reviews.
ReviewedSubjects == [i \in 1..Len(reviewed) |-> id_list[reviewed[i]]]

\* C13 as claimed: also with a SubjectID that occurs twice, the ratings
\* hold one entry per completed review.
C13_OneEntryPerReview == Len(ratings) = Len(reviewed)

\* C13 as amended: every occurrence of a SubjectID is prepared and
\* reviewed, and the ratings, keyed by SubjectID, hold one entry per
\* distinct subject reviewed: a review stores its rating under its subject,
\* replacing the rating of an earlier review of the same id and leaving the
\* other entries alone.  After m reviews there are as many entries as
\* distinct ids among the first m subjects (m when they are distinct).
C13_OneEntryPerSubject ==
    /\ [](/\ Keys(ratings) = FirstOccurrences(ReviewedSubjects)
          /\ Len(ratings) = Cardinality(Range(ReviewedSubjects))
          /\ NoDup(ReviewedSubjects) => Len(ratings) = Len(reviewed)
          /\ reviewed # <<>> =>
                Lookup(ratings, id_list[reviewed[Len(reviewed)]]) = review_result.rating
          /\ pc = "Completed" =>
                prepared = Upto(Len(id_list)) /\ reviewed = Upto(Len(id_list)))
    /\ [][reviewed' # reviewed =>
            /\ Lookup(ratings', id_list[idx]) = review_result'.rating
            /\ \A k \in Range(Keys(ratings)) \ {id_list[idx]} :
                  HasKey(ratings', k) /\ Lookup(ratings', k) = Lookup(ratings, k)]_vars

\* The same subject reviewed twice: two reviews, one entry.
C13_Witness ==
    /\ Len(reviewed) = 2
    /\ id_list[1] = id_list[2]
    /\ Len(ratings) = 1

IsPrefix(a, b) == Len(a) <= Len(b) /\ a = SubSeq(b, 1, Len(a))

\* C14: the ratings are empty until the first review returns; no step
\* removes a key; keys stay in the order of their first insertion, which
\* is the order in which the subjects were reviewed.
C14_GrowsInOrder ==
    /\ ratings = <<>>
    /\ [](reviewed = <<>> => ratings = <<>>)
    /\ [][Range(Keys(ratings)) \subseteq Range(Keys(ratings'))]_vars
    /\ [][IsPrefix(Keys(ratings), Keys(ratings'))]_vars
    /\ [](Keys(ratings) = FirstOccurrences(ReviewedSubjects))

\* Three reviews of two subjects, the first of them reviewed again last.
C14_Witness ==
    /\ Len(reviewed) = 3
    /\ id_list[1] = id_list[3] /\ id_list[1] # id_list[2]
    /\ Keys(ratings) = <<id_list[1], id_list[2]>>

\* ------------------------------------- claims on failures and the frame
\* _prepare_images raised: one of its two load errors or the error of an
\* unsupported kind reached the top of cli_run.
PrepFailed == err \in {IOError_t1_mri, IOError_fs_seg, NotImplementedError}

\* C15: a failure of the preparation at position k aborts the run there.
\* A preparation that does not return ends the run with its error, which
\* is what the process dies of (status 1); a kind other than
\* cortical_volumetric fails the first preparation; position k is never
\* reviewed and adds no rating; positions after k are neither prepared nor
\* reviewed, and nothing happens after the failure.
C15_PrepFailureAborts ==
    /\ [](PrepFailed =>
            /\ pc = "Error" /\ exit_status = 1
            /\ ~prep.returned
            /\ prepared = Upto(idx)
            /\ reviewed = Upto(idx - 1)
            /\ Keys(ratings) = FirstOccurrences(SubSeq(id_list, 1, idx - 1)))
    /\ []((Len(prepared) > Len(reviewed) /\ pc # "review") => PrepFailed)
    /\ []((prepared # <<>> /\ vis_type # "cortical_volumetric") =>
            err = NotImplementedError \/ err \in {IOError_t1_mri, IOError_fs_seg})
    /\ [][prepared' # prepared /\ ~prep'.returned => pc' = "Error" /\ PrepFailed']_vars
    /\ [][PrepFailed => UNCHANGED vars]_vars

\* The segmentation of the second of three subjects cannot be loaded.
C15_Witness ==
    /\ err = IOError_fs_seg
    /\ Len(id_list) = 3
    /\ prepared = <<1, 2>>
    /\ reviewed = <<1>>
    /\ Len(ratings) = 1

\* C17: from the first preparation on, no step changes fs_dir, out_dir,
\* id_list, vis_type or alpha_set (nor what parse_args read); and every
\* call of review_and_rate gets alpha_set[0] and alpha_set[1], the same
\* pair at every call of the run.
C17_RunContextImmutable ==
    /\ [][pc \notin {"start", "checked"} =>
            UNCHANGED <<fs_dir, out_dir, id_list, vis_type, alpha_set, env,
                        fs, lines, candidates, id_list_out, id_list_err,
                        invalid_list>>]_vars
    /\ [](review_args # NoReviewArgs =>
            /\ review_args.alpha_mri = alpha_set[1]
            /\ review_args.alpha_seg = alpha_set[2])
    /\ [][(review_args # NoReviewArgs /\ review_args' # review_args) =>
            /\ review_args'.alpha_mri = review_args.alpha_mri
            /\ review_args'.alpha_seg = review_args.alpha_seg]_vars

\* The second review is called with the pair (0.0, 1.0), as the first was.
C17_Witness ==
    /\ pc = "review"
    /\ idx = 2
    /\ alpha_set = <<0, 10>>
    /\ review_args.alpha_mri = 0 /\ review_args.alpha_seg = 10
    /\ review_args.annot = <<"ID", id_list[2]>>

\* C18: when a preparation fails, clean_up has not been called and never
\* is, whatever ratings were recorded; clean_up is called only after a
\* review returned quit_now = True.
C18_NoPersistenceOnPrepFailure ==
    /\ PrepFailed => clean_up_calls = <<>>
    /\ pc \in {"start", "checked", "loop", "review", "clean_up", "Error",
               "Completed"} => clean_up_calls = <<>>
    /\ clean_up_calls # <<>> =>
            /\ review_result.quit_now
            /\ pc \in {"sys_exit", "Stopped"}

\* The third preparation fails: two ratings recorded, none handed over.
C18_Witness ==
    /\ pc = "Error"
    /\ err = IOError_t1_mri
    /\ idx = 3
    /\ Len(ratings) = 2
    /\ clean_up_calls = <<>>

\* C19: out_dir is printed exactly in the runs that end Completed, after
\* every subject was prepared and reviewed with no stop; a run that ends by
\* sys.exit() inside the loop or by an error prints nothing.
C19_ReportedOnCompletion ==
    /\ [](reported <=> pc = "Completed")
    /\ [](reported =>
            /\ reviewed = Upto(Len(id_list)) /\ reviewed # <<>>
            /\ prepared = reviewed
            /\ ~review_result.quit_now
            /\ err = "none")
    /\ [](pc \in {"Stopped", "Error"} \/ StopSignalled => ~reported)
    /\ [][reported' # reported =>
            pc = "loop" /\ reviewed = Upto(Len(id_list)) /\ reviewed # <<>>]_vars

\* Three subjects reviewed without a stop, then the report.
C19_Witness ==
    /\ pc = "Completed"
    /\ reported
    /\ Len(id_list) = 3
    /\ reviewed = <<1, 2, 3>>

\* ----------------------------------------------------------- termination
Terminated == pc \in {"Completed", "Stopped", "Error"}

\* C16: a run that has entered the loop ends: Completed, Stopped, or with
\* the error of a preparation; an end is final; Completed only with every
\* position prepared and reviewed and no quit_now ever returned (a quit_now
\* leaves the loop at once), Stopped only after a review returned quit_now.
C16_Terminates ==
    /\ (pc = "loop") ~> (pc \in {"Completed", "Stopped"} \/ (pc = "Error" /\ PrepFailed))
    /\ [][Terminated => UNCHANGED vars]_vars
    /\ []((pc = "Error" /\ prepared # <<>>) => PrepFailed)
    /\ [](review_result.quit_now => StopSignalled)
    /\ [](pc = "Completed" =>
            /\ prepared = Upto(Len(id_list))
            /\ reviewed = Upto(Len(id_list))
            /\ ~review_result.quit_now)
    /\ [](pc = "Stopped" => review_result.quit_now /\ reviewed # <<>>)

\* Two subjects reviewed, no stop: the run is over with status 0.
C16_Witness ==
    /\ pc = "Completed"
    /\ Len(id_list) = 2
    /\ reviewed = <<1, 2>>
    /\ exit_status = 0

====
